---- MODULE Spec2Model ----
(***************************************************************************)
(* A model of src/cargo/util_schemas/manifest.rs: the Cargo.toml schema.   *)
(*                                                                         *)
(*  - TomlProfile and TomlProfile::merge (specification SpecMerge);        *)
(*  - the decoders of the inheritable fields, of the dependency entries,   *)
(*    of the records carrying alias fields and of the profile settings,    *)
(*    with their accessors and encoders (specification Spec);              *)
(*  - merge over three profiles (specification SpecAssoc).                 *)
(*                                                                         *)
(* Option<T> is modelled as a record: None is [some |-> FALSE] and         *)
(* Some(v) is [some |-> TRUE, v |-> v].                                    *)
(***************************************************************************)
EXTENDS Integers, Sequences, FiniteSets, TLC

VARIABLES
    self,       \* SpecMerge: the profile merge is called on (&mut self)
    profile,    \* SpecMerge: the profile given to merge (&Self)
    merged,     \* SpecMerge: self after self.merge(profile), after
                \* self.merge(self) or after self.merge(default)
    mpc,        \* SpecMerge: "build" while the two profiles are written, then
                \* which merge ran: "merged", "itself" or "default"
    nset,       \* SpecMerge: how many build steps were taken
    third,      \* SpecAssoc: a third profile, merged after `profile`
    regrouped,  \* SpecAssoc: self after self.merge(profile merged with third);
                \* SpecMerge: a default profile after its merge(self)
    node,       \* Spec: the TOML node handed to a decoder
    decoder,    \* Spec: the decoder that ran on node ("none" before any ran)
    out,        \* Spec: what the decoder returned (Ok, Err or Panic)
    got         \* Spec: what the accessors of the decoded value returned, or its
                \* encoding; SpecMerge: the encoding of the merged profile

vars == <<self, profile, merged, mpc, nset, third, regrouped, node, decoder, out, got>>

mergeVars == <<self, profile, merged, mpc, nset, third, regrouped>>

decodeVars == <<node, decoder, out, got>>

None == [some |-> FALSE]

Some(x) == [some |-> TRUE, v |-> x]

(***************************************************************************)
(* Bounds of the model.                                                    *)
(***************************************************************************)
\* how many fields / nested slots the two profiles given to merge have set, together
MaxSet == 2

(***************************************************************************)
(* TomlProfile                                                             *)
(***************************************************************************)
\* the scalar (non-nested) fields of TomlProfile
ScalarFields ==
    {"opt_level", "lto", "codegen_backend", "codegen_units", "debug",
     "split_debuginfo", "debug_assertions", "rpath", "panic",
     "overflow_checks", "incremental", "dir_name", "inherits", "strip",
     "rustflags", "trim_paths"}

\* StringOrBool
SobString(s) == [String |-> s]

SobBool(b) == [Bool |-> b]

\* TomlTrimPaths
TrimAll == [kind |-> "All"]

TrimValues(vs) == [kind |-> "Values", values |-> vs]

\* the values the build steps write into a scalar field (two per field)
FieldValues(f) ==
    CASE f = "opt_level"        -> {"1", "3"}
      [] f = "lto"              -> {SobBool(TRUE), SobString("thin")}
      [] f = "codegen_backend"  -> {"llvm", "cranelift"}
      [] f = "codegen_units"    -> {1, 16}
      [] f = "debug"            -> {"Full", "None"}
      [] f = "split_debuginfo"  -> {"packed", "off"}
      [] f = "debug_assertions" -> {TRUE, FALSE}
      [] f = "rpath"            -> {TRUE, FALSE}
      [] f = "panic"            -> {"abort", "unwind"}
      [] f = "overflow_checks"  -> {TRUE, FALSE}
      [] f = "incremental"      -> {TRUE, FALSE}
      [] f = "dir_name"         -> {"d1", "d2"}
      [] f = "inherits"         -> {"release", "dev"}
      [] f = "strip"            -> {SobBool(FALSE), SobString("symbols")}
      [] f = "rustflags"        -> {<<"-C">>, <<"-C", "-g">>}
      [] f = "trim_paths"       -> {TrimAll, TrimValues(<<"Macro">>)}

\* TomlProfile::default(): every field None
DefaultProfile ==
    [opt_level |-> None, lto |-> None, codegen_backend |-> None,
     codegen_units |-> None, debug |-> None, split_debuginfo |-> None,
     debug_assertions |-> None, rpath |-> None, panic |-> None,
     overflow_checks |-> None, incremental |-> None, dir_name |-> None,
     inherits |-> None, strip |-> None, rustflags |-> None,
     package |-> None, build_override |-> None, trim_paths |-> None]

\* an empty BTreeMap
EmptyMap == [k \in {} |-> None]

\* the package specs used as keys of `package` ("*" is ProfilePackageSpec::All)
PackageSpecs == {"foo", "*"}

\* where a build step writes: the profile itself, its build-override ("bo"),
\* one of its package overrides, or a slot nested one level deeper
Paths == {<<>>, <<"bo">>, <<"foo">>, <<"*">>, <<"foo", "bo">>, <<"bo", "foo">>}

\* the scalar fields the build steps write inside nested profiles
NestedFields == {"opt_level", "debug", "strip"}

\* a faulty variant of merge_field: self's field is assigned profile's, also
\* when profile's is None
merge_field_assign(selff, otherf) == otherf

\* a faulty variant of merge_field: a field self has set is kept
merge_field_left(selff, otherf) == IF selff.some THEN selff ELSE otherf

\* `if let Some(v) = &profile.f { self.f = Some(v.clone()) }`
merge_field(selff, otherf) == IF otherf.some THEN otherf ELSE selff

RECURSIVE merge(_, _)

\* a faulty variant of merge_package: profile's override replaces self's
\* override of the same spec
merge_package_replace(self_package, other_package) ==
    IF other_package.some
    THEN IF self_package.some
         THEN Some([spec \in (DOMAIN self_package.v) \cup (DOMAIN other_package.v) |->
                       IF spec \in DOMAIN other_package.v
                       THEN other_package.v[spec]
                       ELSE self_package.v[spec]])
         ELSE other_package
    ELSE self_package

\* the `package` block of merge
merge_package(self_package, other_package) ==
    IF other_package.some
    THEN IF self_package.some
         THEN Some([spec \in (DOMAIN self_package.v) \cup (DOMAIN other_package.v) |->
                       IF spec \in DOMAIN other_package.v
                       THEN IF spec \in DOMAIN self_package.v
                            THEN merge(self_package.v[spec], other_package.v[spec])
                            ELSE other_package.v[spec]
                       ELSE self_package.v[spec]])
         ELSE other_package
    ELSE self_package

\* a faulty variant of merge_build_override: profile's build-override
\* replaces self's
merge_build_override_replace(self_bo, other_bo) ==
    IF other_bo.some THEN other_bo ELSE self_bo

\* a faulty variant of merge_build_override: unless both have one, self's
\* build-override becomes profile's, also when profile has none
merge_build_override_clear(self_bo, other_bo) ==
    IF self_bo.some /\ other_bo.some
    THEN Some(merge(self_bo.v, other_bo.v))
    ELSE other_bo

\* the `build_override` block of merge
merge_build_override(self_bo, other_bo) ==
    IF other_bo.some
    THEN IF self_bo.some
         THEN Some(merge(self_bo.v, other_bo.v))
         ELSE other_bo
    ELSE self_bo

\* TomlProfile::merge: self after self.merge(p)
merge(s, p) ==
    [opt_level        |-> merge_field(s.opt_level, p.opt_level),
     lto              |-> merge_field(s.lto, p.lto),
     codegen_backend  |-> merge_field(s.codegen_backend, p.codegen_backend),
     codegen_units    |-> merge_field(s.codegen_units, p.codegen_units),
     debug            |-> merge_field(s.debug, p.debug),
     debug_assertions |-> merge_field(s.debug_assertions, p.debug_assertions),
     split_debuginfo  |-> merge_field(s.split_debuginfo, p.split_debuginfo),
     rpath            |-> merge_field(s.rpath, p.rpath),
     panic            |-> merge_field(s.panic, p.panic),
     overflow_checks  |-> merge_field(s.overflow_checks, p.overflow_checks),
     incremental      |-> merge_field(s.incremental, p.incremental),
     rustflags        |-> merge_field(s.rustflags, p.rustflags),
     package          |-> merge_package(s.package, p.package),
     build_override   |-> merge_build_override(s.build_override, p.build_override),
     inherits         |-> merge_field(s.inherits, p.inherits),
     dir_name         |-> merge_field(s.dir_name, p.dir_name),
     strip            |-> merge_field(s.strip, p.strip),
     trim_paths       |-> merge_field(s.trim_paths, p.trim_paths)]

(***************************************************************************)
(* Writing the two profiles given to merge                                 *)
(***************************************************************************)
RECURSIVE NestedAt(_, _)
\* the profile at `path` inside p, None when a slot on the way is not set
NestedAt(p, path) ==
    IF path = <<>> THEN Some(p)
    ELSE IF Head(path) = "bo"
         THEN IF p.build_override.some
              THEN NestedAt(p.build_override.v, Tail(path))
              ELSE None
         ELSE IF p.package.some /\ Head(path) \in DOMAIN p.package.v
              THEN NestedAt(p.package.v[Head(path)], Tail(path))
              ELSE None

RECURSIVE PutAt(_, _, _)
\* p with the profile at `path` replaced by q, the slots on the way created
PutAt(p, path, q) ==
    IF path = <<>> THEN q
    ELSE IF Head(path) = "bo"
         THEN [p EXCEPT !.build_override =
                  Some(PutAt(IF p.build_override.some THEN p.build_override.v
                             ELSE DefaultProfile, Tail(path), q))]
         ELSE LET map == IF p.package.some THEN p.package.v ELSE EmptyMap
                  old == IF Head(path) \in DOMAIN map THEN map[Head(path)]
                         ELSE DefaultProfile
              IN [p EXCEPT !.package =
                     Some([spec \in (DOMAIN map) \cup {Head(path)} |->
                              IF spec = Head(path)
                              THEN PutAt(old, Tail(path), q)
                              ELSE map[spec]])]

\* the profile at `path` inside p, the default one when it is not there yet
ProfileAt(p, path) ==
    IF NestedAt(p, path).some THEN NestedAt(p, path).v ELSE DefaultProfile

\* the fields a build step may write at `path`
FieldsAt(path) == IF path = <<>> THEN ScalarFields ELSE NestedFields

\* two default profiles, nothing decoded
MergeInit ==
    /\ self = DefaultProfile
    /\ profile = DefaultProfile
    /\ merged = DefaultProfile
    /\ mpc = "build"
    /\ nset = 0
    /\ third = DefaultProfile
    /\ regrouped = DefaultProfile
    /\ node = [kind |-> "absent"]
    /\ decoder = "none"
    /\ out = [tag |-> "None"]
    /\ got = [tag |-> "None"]

\* a TOML document sets one more field of the profile merge is called on
SetSelfField ==
    /\ mpc = "build"
    /\ nset < MaxSet
    /\ \E path \in Paths : \E f \in FieldsAt(path) : \E val \in FieldValues(f) :
          /\ ~ProfileAt(self, path)[f].some
          /\ self' = PutAt(self, path, [ProfileAt(self, path) EXCEPT ![f] = Some(val)])
    /\ nset' = nset + 1
    /\ UNCHANGED <<profile, merged, mpc, third, regrouped, decodeVars>>

\* a TOML document sets one more field of the profile given to merge
SetOtherField ==
    /\ mpc = "build"
    /\ nset < MaxSet
    /\ \E path \in Paths : \E f \in FieldsAt(path) : \E val \in FieldValues(f) :
          /\ ~ProfileAt(profile, path)[f].some
          /\ profile' = PutAt(profile, path, [ProfileAt(profile, path) EXCEPT ![f] = Some(val)])
    /\ nset' = nset + 1
    /\ UNCHANGED <<self, merged, mpc, third, regrouped, decodeVars>>

\* an empty nested slot (`[profile.x.build-override]` with no key, an empty
\* `package` table or an empty `[profile.x.package.foo]`) in either profile
AddEmptySlot ==
    /\ mpc = "build"
    /\ nset < MaxSet
    /\ \E path \in Paths \ {<<>>} :
          \/ /\ ~NestedAt(self, path).some
             /\ self' = PutAt(self, path, DefaultProfile)
             /\ UNCHANGED profile
          \/ /\ ~NestedAt(profile, path).some
             /\ profile' = PutAt(profile, path, DefaultProfile)
             /\ UNCHANGED self
    /\ nset' = nset + 1
    /\ UNCHANGED <<merged, mpc, third, regrouped, decodeVars>>

\* self.merge(&profile)
Merge ==
    /\ mpc = "build"
    /\ merged' = merge(self, profile)
    /\ mpc' = "merged"
    /\ UNCHANGED <<self, profile, nset, third, regrouped, decodeVars>>

\* self.merge(&self.clone()): a profile merged with a copy of itself
MergeWithItself ==
    /\ mpc = "build"
    /\ merged' = merge(self, self)
    /\ mpc' = "itself"
    /\ UNCHANGED <<self, profile, nset, third, regrouped, decodeVars>>

\* self.merge(&TomlProfile::default()) and TomlProfile::default().merge(&self)
MergeWithDefault ==
    /\ mpc = "build"
    /\ merged' = merge(self, DefaultProfile)
    /\ regrouped' = merge(DefaultProfile, self)
    /\ mpc' = "default"
    /\ UNCHANGED <<self, profile, nset, third, decodeVars>>

\* the fields of TomlProfile in the order the struct declares them, which
\* is the order derive(Serialize) writes them in
TomlProfile_fields ==
    <<"opt_level", "lto", "codegen_backend", "codegen_units", "debug",
      "split_debuginfo", "debug_assertions", "rpath", "panic",
      "overflow_checks", "incremental", "dir_name", "inherits", "strip",
      "rustflags", "package", "build_override", "trim_paths">>

\* the fields of TomlProfile whose values are tables: the map of package
\* overrides and the nested build-override profile
TomlProfile_tables == {"package", "build_override"}

\* derive(Serialize) for TomlProfile: the fields that are Some, in the order
\* of the declaration, each a table or not (the values are not modelled)
TomlProfile_serialize(p) ==
    LET set == SelectSeq(TomlProfile_fields, LAMBDA f : p[f].some)
    IN [i \in 1..Len(set) |-> [field |-> set[i], table |-> set[i] \in TomlProfile_tables]]

\* the merged profile is encoded
SerializeProfile ==
    /\ mpc = "merged"
    /\ got.tag = "None"
    /\ got' = [tag |-> "Encoded", fields |-> TomlProfile_serialize(merged)]
    /\ UNCHANGED <<mergeVars, node, decoder, out>>

MergeNext ==
    \/ SetSelfField \/ SetOtherField \/ AddEmptySlot
    \/ Merge \/ MergeWithItself \/ MergeWithDefault
    \/ SerializeProfile

SpecMerge == MergeInit /\ [][MergeNext]_vars

(***************************************************************************)
(* Merging three profiles, in both groupings                               *)
(***************************************************************************)
\* how many fields / nested slots the three profiles have set, together
MaxAssoc == 3

\* where the build steps of the three profiles write, and which fields
AssocPaths == {<<>>, <<"bo">>, <<"foo">>, <<"foo", "bo">>}

AssocFields == {"opt_level", "strip"}

\* three default profiles, nothing merged
AssocInit ==
    /\ self = DefaultProfile
    /\ profile = DefaultProfile
    /\ third = DefaultProfile
    /\ merged = DefaultProfile
    /\ regrouped = DefaultProfile
    /\ mpc = "build"
    /\ nset = 0
    /\ node = [kind |-> "absent"]
    /\ decoder = "none"
    /\ out = [tag |-> "None"]
    /\ got = [tag |-> "None"]

\* a TOML document sets one more field of one of the three profiles
SetFieldOfThree ==
    /\ mpc = "build"
    /\ nset < MaxAssoc
    /\ \E path \in AssocPaths : \E f \in AssocFields : \E val \in FieldValues(f) :
          \/ /\ ~ProfileAt(self, path)[f].some
             /\ self' = PutAt(self, path, [ProfileAt(self, path) EXCEPT ![f] = Some(val)])
             /\ UNCHANGED <<profile, third>>
          \/ /\ ~ProfileAt(profile, path)[f].some
             /\ profile' = PutAt(profile, path,
                                 [ProfileAt(profile, path) EXCEPT ![f] = Some(val)])
             /\ UNCHANGED <<self, third>>
          \/ /\ ~ProfileAt(third, path)[f].some
             /\ third' = PutAt(third, path, [ProfileAt(third, path) EXCEPT ![f] = Some(val)])
             /\ UNCHANGED <<self, profile>>
    /\ nset' = nset + 1
    /\ UNCHANGED <<merged, regrouped, mpc, decodeVars>>

\* an empty nested slot in one of the three profiles
AddEmptySlotOfThree ==
    /\ mpc = "build"
    /\ nset < MaxAssoc
    /\ \E path \in AssocPaths \ {<<>>} :
          \/ /\ ~NestedAt(self, path).some
             /\ self' = PutAt(self, path, DefaultProfile)
             /\ UNCHANGED <<profile, third>>
          \/ /\ ~NestedAt(profile, path).some
             /\ profile' = PutAt(profile, path, DefaultProfile)
             /\ UNCHANGED <<self, third>>
          \/ /\ ~NestedAt(third, path).some
             /\ third' = PutAt(third, path, DefaultProfile)
             /\ UNCHANGED <<self, profile>>
    /\ nset' = nset + 1
    /\ UNCHANGED <<merged, regrouped, mpc, decodeVars>>

\* self.merge(&profile); self.merge(&third) on one copy of self, and
\* profile.merge(&third); self.merge(&profile) on another
MergeThree ==
    /\ mpc = "build"
    /\ merged' = merge(merge(self, profile), third)
    /\ regrouped' = merge(self, merge(profile, third))
    /\ mpc' = "merged"
    /\ UNCHANGED <<self, profile, third, nset, decodeVars>>

AssocNext == SetFieldOfThree \/ AddEmptySlotOfThree \/ MergeThree

SpecAssoc == AssocInit /\ [][AssocNext]_vars

(***************************************************************************)
(* TOML nodes, as the deserializers see them                               *)
(***************************************************************************)
TomlString(s) == [kind |-> "string", s |-> s]

TomlBoolean(b) == [kind |-> "boolean", b |-> b]

TomlInteger(i) == [kind |-> "integer", i |-> i]

\* an array; items is the sequence of its nodes
TomlArray(xs) == [kind |-> "array", items |-> xs]

\* a table; entries is the function from the keys it has to their nodes
TomlTable(t) == [kind |-> "table", entries |-> t]

\* the table with one key
One(k, n) == [x \in {k} |-> n]

\* the keys of a table node
Keys(n) == DOMAIN n.entries

\* how many keys the table under decode has at most
MaxKeys == 5

\* the nodes a decoder is first handed: every scalar shape, arrays, and the
\* empty table (tables grow by AddKey)
BaseNodes ==
    {TomlString("1.0.0"), TomlString(" 1.0.0 "), TomlString("1.32"), TomlString("1.32-beta"), TomlString("readme.md"),
     TomlBoolean(TRUE), TomlBoolean(FALSE), TomlInteger(1),
     TomlArray(<<>>), TomlArray(<<TomlString("a")>>), TomlArray(<<TomlBoolean(TRUE)>>), TomlArray(<<TomlInteger(1)>>),
     TomlTable(EmptyMap)}

\* keys of an inheritable field's table (`maintenance` is a badge, `foo` is
\* a key no schema knows)
FieldKeys == {"workspace", "maintenance", "foo"}

\* keys of a dependency's table (`foo` and `bar` are keys no schema knows)
DepKeys ==
    {"workspace", "features", "default-features", "default_features",
     "optional", "public", "version", "path", "foo", "bar"}

\* keys of the manifest and of a `target.<cfg>` table that have an alias
ManifestKeys ==
    {"package", "project", "dev-dependencies", "dev_dependencies",
     "build-dependencies", "build_dependencies"}

\* keys of a target (`[lib]`, `[[bin]]`, ...) table
TargetKeys == {"name", "crate-type", "crate_type", "proc-macro", "proc_macro"}

\* keys of a `[package]` table (`foo` is a key no schema knows)
PackageTableKeys == {"name", "cargo-features", "foo"}

\* a table under decode takes its keys from one of these sets
KeyFamilies == {FieldKeys, DepKeys, ManifestKeys, TargetKeys, PackageTableKeys}

\* the nodes a key is given (`optional`, `crate_type` and the dependency
\* tables also get a node their field does not decode)
KeyValues(k) ==
    CASE k = "workspace"          -> {TomlBoolean(TRUE), TomlBoolean(FALSE)}
      [] k = "maintenance"        -> {TomlTable(One("status", TomlString("passively-maintained")))}
      [] k = "foo"                -> {TomlString("x")}
      [] k = "bar"                -> {TomlInteger(1)}
      [] k = "features"           -> {TomlArray(<<TomlString("f")>>)}
      [] k = "default-features"   -> {TomlBoolean(TRUE), TomlBoolean(FALSE)}
      [] k = "default_features"   -> {TomlBoolean(TRUE), TomlBoolean(FALSE)}
      [] k = "optional"           -> {TomlBoolean(TRUE), TomlString("yes")}
      [] k = "public"             -> {TomlBoolean(TRUE)}
      [] k = "version"            -> {TomlString("1.0")}
      [] k = "path"               -> {TomlString("../p")}
      [] k = "package"            -> {TomlTable(One("name", TomlString("a"))),
                                      TomlTable(One("name", TomlString("c")))}
      [] k = "project"            -> {TomlTable(One("name", TomlString("a"))), TomlTable(One("name", TomlString("b")))}
      [] k = "dev-dependencies"   -> {TomlTable(One("a", TomlString("1.0"))),
                                      TomlTable(One("b", TomlTable(One("workspace", TomlBoolean(TRUE)))))}
      [] k = "dev_dependencies"   -> {TomlTable(One("a", TomlTable(One("workspace", TomlBoolean(TRUE))))),
                                      TomlTable(One("b", TomlTable(One("workspace", TomlBoolean(TRUE)))))}
      [] k = "build-dependencies" -> {TomlTable(One("c", TomlTable(One("workspace", TomlBoolean(TRUE))))),
                                      TomlTable(One("c", TomlString("3.0")))}
      [] k = "build_dependencies" -> {TomlTable(One("c", TomlTable(One("workspace", TomlBoolean(TRUE))))),
                                      TomlTable(One("d", TomlTable(One("workspace", TomlBoolean(TRUE)))))}
      [] k = "name"               -> {TomlString("t")}
      [] k = "crate-type"         -> {TomlArray(<<TomlString("lib")>>), TomlArray(<<TomlString("proc-macro")>>)}
      [] k = "crate_type"         -> {TomlArray(<<TomlString("cdylib")>>), TomlString("lib")}
      [] k = "proc-macro"         -> {TomlBoolean(TRUE), TomlBoolean(FALSE)}
      [] k = "proc_macro"         -> {TomlBoolean(TRUE)}
      [] k = "cargo-features"     -> {TomlArray(<<TomlString("a")>>), TomlBoolean(TRUE),
                                      TomlString("x"), TomlTable(EmptyMap)}

(***************************************************************************)
(* What a decoder returns                                                  *)
(***************************************************************************)
Ok(x) == [tag |-> "Ok", v |-> x]

Err(m) == [tag |-> "Err", msg |-> m]

\* the decoder did not return: it panicked with this message
Panic(m) == [tag |-> "Panic", panic |-> m]

\* serde's "invalid type: ..., expected ..." for a node of a shape the field
\* does not accept
InvalidType == "invalid type"

\* de::Error::custom("`workspace` cannot be false")
WorkspaceCannotBeFalse == "workspace cannot be false"

\* serde's "missing field `workspace`" and "missing field `name`"
MissingWorkspace == "missing field workspace"

MissingName == "missing field name"

\* Result::map
MapOk(r, F(_)) == IF r.tag = "Ok" THEN Ok(F(r.v)) ELSE r

\* the first result of rs that is not Ok, or Ok(x) when all are
AllOk(rs, x) ==
    LET bad == {i \in 1..Len(rs) : rs[i].tag # "Ok"}
    IN IF bad = {} THEN Ok(x)
       ELSE rs[CHOOSE i \in bad : \A j \in bad : i <= j]

\* Option::or
OptionOr(a, b) == IF a.some THEN a ELSE b

(***************************************************************************)
(* The shapes the fields of the records accept                             *)
(***************************************************************************)
bool_deserialize(n) == IF n.kind = "boolean" THEN Ok(n.b) ELSE Err(InvalidType)

String_deserialize(n) == IF n.kind = "string" THEN Ok(n.s) ELSE Err(InvalidType)

\* Vec<String>
VecString_deserialize(n) ==
    IF n.kind = "array" /\ \A i \in 1..Len(n.items) : n.items[i].kind = "string"
    THEN Ok([i \in 1..Len(n.items) |-> n.items[i].s])
    ELSE Err(InvalidType)

StringOrVec_deserialize(n) ==
    CASE n.kind = "string" -> Ok(<<n.s>>)
      [] n.kind = "array"  -> VecString_deserialize(n)
      [] OTHER             -> Err(InvalidType)

StringOrBool_deserialize(n) ==
    CASE n.kind = "boolean" -> Ok(SobBool(n.b))
      [] n.kind = "string"  -> Ok(SobString(n.s))
      [] OTHER              -> Err(InvalidType)

VecStringOrBool_deserialize(n) ==
    CASE n.kind = "boolean" -> Ok([Bool |-> n.b])
      [] n.kind = "array"   ->
            LET r == VecString_deserialize(n)
            IN IF r.tag = "Ok" THEN Ok([VecString |-> r.v]) ELSE r
      [] OTHER              -> Err(InvalidType)

\* BTreeMap<String, BTreeMap<String, String>>
BTreeMap_deserialize(n) ==
    IF /\ n.kind = "table"
       /\ \A k \in Keys(n) :
             /\ n.entries[k].kind = "table"
             /\ \A j \in Keys(n.entries[k]) : n.entries[k].entries[j].kind = "string"
    THEN Ok([k \in Keys(n) |-> [j \in Keys(n.entries[k]) |-> n.entries[k].entries[j].s]])
    ELSE Err(InvalidType)

\* a field of type Option<T> of a derived record: None when the key is
\* absent, Some of the decoded node otherwise
OptionField(t, k, Dec(_)) ==
    IF k \in DOMAIN t
    THEN LET r == Dec(t[k]) IN IF r.tag = "Ok" THEN Ok(Some(r.v)) ELSE r
    ELSE Ok(None)

\* str::trim on the strings of BaseNodes
trim(s) == IF s = " 1.0.0 " THEN "1.0.0" ELSE s

\* semver::Version::from_str on the strings of BaseNodes: major.minor.patch
semver_Version_parse(s) ==
    IF s = "1.0.0" THEN Ok([major |-> 1, minor |-> 0, patch |-> 0])
    ELSE Err("invalid semver")

\* PartialVersion::from_str on the strings of BaseNodes and SettingNodes
PartialVersion_parse(s) ==
    CASE s = "1.0.0"     -> Ok([major |-> 1, minor |-> Some(0), patch |-> Some(0),
                                pre |-> None, build |-> None])
      [] s = "1.32"      -> Ok([major |-> 1, minor |-> Some(32), patch |-> None,
                                pre |-> None, build |-> None])
      [] s = "1.32-beta" -> Ok([major |-> 1, minor |-> Some(32), patch |-> None,
                                pre |-> Some("beta"), build |-> None])
      [] s = "1.32+build" -> Ok([major |-> 1, minor |-> Some(32), patch |-> None,
                                 pre |-> None, build |-> Some("build")])
      [] OTHER           -> Err("invalid partial version")

\* the start of the message of both bail!s of RustVersion::from_str
UnexpectedPrerelease == "unexpected prerelease field"

\* a faulty variant of RustVersion::from_str: the build metadata is let through
RustVersion_from_str_build(s) ==
    LET partial == PartialVersion_parse(s)
    IN IF partial.tag # "Ok" THEN partial
       ELSE IF partial.v.pre.some
            THEN Err(UnexpectedPrerelease)
       ELSE Ok(partial.v)

\* RustVersion::from_str
RustVersion_from_str(s) ==
    LET partial == PartialVersion_parse(s)
    IN IF partial.tag # "Ok" THEN partial
       ELSE IF partial.v.pre.some
            THEN Err(UnexpectedPrerelease)
       ELSE IF partial.v.build.some
            THEN Err(UnexpectedPrerelease)
       ELSE Ok(partial.v)

\* RustVersion::deserialize: the string handler parses the string, and the
\* UntaggedEnumVisitor has no handler for any other shape
RustVersion_deserialize(n) ==
    IF n.kind = "string" THEN RustVersion_from_str(n.s) ELSE Err(InvalidType)

(***************************************************************************)
(* InheritableField<T> and its decoders                                    *)
(***************************************************************************)
\* InheritableField::Value / InheritableDependency::Value
Value(x) == [variant |-> "Value", value |-> x]

\* InheritableField::Inherit / InheritableDependency::Inherit
Inherit(w) == [variant |-> "Inherit", inherit |-> w]

\* bool_no_false, the deserialize_with of TomlInheritedField::workspace
bool_no_false(n) ==
    LET b == bool_deserialize(n)
    IN IF b.tag # "Ok" THEN b
       ELSE IF b.v THEN Ok(b.v) ELSE Err(WorkspaceCannotBeFalse)

\* a variant of TomlInheritedField's decoder that denies unknown fields
TomlInheritedField_deny_unknown(t) ==
    IF DOMAIN t \ {"workspace"} # {} THEN Err("unknown field")
    ELSE IF "workspace" \in DOMAIN t
         THEN MapOk(bool_no_false(t["workspace"]), LAMBDA b : [workspace |-> b])
         ELSE Err(MissingWorkspace)

\* derive(Deserialize) for TomlInheritedField, from a map: the one field is
\* `workspace`, keys that are no field are skipped
TomlInheritedField_visit_map(t) ==
    IF "workspace" \in DOMAIN t
    THEN MapOk(bool_no_false(t["workspace"]), LAMBDA b : [workspace |-> b])
    ELSE Err(MissingWorkspace)

\* derive(Deserialize) for TomlInheritedField, from a sequence: its one
\* element is `workspace`
TomlInheritedField_visit_seq(items) ==
    IF Len(items) = 1
    THEN MapOk(bool_no_false(items[1]), LAMBDA b : [workspace |-> b])
    ELSE Err("invalid length")

\* TomlInheritedField::deserialize on a serde_value::Value
TomlInheritedField_deserialize(n) ==
    CASE n.kind = "table" -> TomlInheritedField_visit_map(n.entries)
      [] n.kind = "array" -> TomlInheritedField_visit_seq(n.items)
      [] OTHER            -> Err(InvalidType)

\* visit_map of the inheritable fields:
\* TomlInheritedField::deserialize(mvd).map(InheritableField::Inherit)
InheritableField_visit_map(n) ==
    MapOk(TomlInheritedField_visit_map(n.entries), Inherit)

InheritableSemverVersion_deserialize(n) ==
    CASE n.kind = "string" -> MapOk(semver_Version_parse(trim(n.s)), Value)
      [] n.kind = "table"  -> InheritableField_visit_map(n)
      [] OTHER             -> Err(InvalidType)

InheritableString_deserialize(n) ==
    CASE n.kind = "string" -> Ok(Value(n.s))
      [] n.kind = "table"  -> InheritableField_visit_map(n)
      [] OTHER             -> Err(InvalidType)

InheritableRustVersion_deserialize(n) ==
    CASE n.kind = "string" -> MapOk(RustVersion_from_str(n.s), Value)
      [] n.kind = "table"  -> InheritableField_visit_map(n)
      [] OTHER             -> Err(InvalidType)

InheritableVecString_deserialize(n) ==
    CASE n.kind = "array" -> MapOk(VecString_deserialize(n), Value)
      [] n.kind = "table" -> InheritableField_visit_map(n)
      [] OTHER            -> Err(InvalidType)

InheritableStringOrBool_deserialize(n) ==
    CASE n.kind = "boolean" -> MapOk(StringOrBool_deserialize(n), Value)
      [] n.kind = "string"  -> MapOk(StringOrBool_deserialize(n), Value)
      [] n.kind = "table"   -> InheritableField_visit_map(n)
      [] OTHER              -> Err(InvalidType)

InheritableVecStringOrBool_deserialize(n) ==
    CASE n.kind = "boolean" -> MapOk(VecStringOrBool_deserialize(n), Value)
      [] n.kind = "array"   -> MapOk(VecStringOrBool_deserialize(n), Value)
      [] n.kind = "table"   -> InheritableField_visit_map(n)
      [] OTHER              -> Err(InvalidType)

\* InheritableBtreeMap::deserialize: the marker is tried first and, when it
\* does not decode, the node is decoded as the map of badges
InheritableBtreeMap_deserialize(n) ==
    LET w == TomlInheritedField_deserialize(n)
    IN IF w.tag = "Ok"
       THEN IF w.v.workspace THEN Ok(Inherit(w.v))
            ELSE Err(WorkspaceCannotBeFalse)
       ELSE MapOk(BTreeMap_deserialize(n), Value)

\* a faulty variant of InheritableField::as_value: the marker of an
\* inheriting field is returned as if it were its value
as_value_marker(field) ==
    IF field.variant = "Inherit" THEN Some(field.inherit) ELSE Some(field.value)

\* InheritableField::as_value
as_value(field) == IF field.variant = "Inherit" THEN None ELSE Some(field.value)

\* what the workspace has for a field: nothing, or a value
WorkspaceDefaults == {None, Some("workspace value")}

\* the error of resolving an inheriting field the workspace has no value for
MissingWorkspaceValue == "missing workspace value"

\* resolve(field, workspace_defaults): a direct value is returned as it is
\* and the workspace is not asked; an inheriting field takes the value the
\* workspace has and fails when it has none. `asked` tells whether the
\* workspace defaults were consulted
resolve(field, workspace_defaults) ==
    IF field.variant = "Value"
    THEN [result |-> Ok(field.value), asked |-> FALSE]
    ELSE [result |-> IF workspace_defaults.some
                     THEN Ok(workspace_defaults.v)
                     ELSE Err(MissingWorkspaceValue),
          asked |-> TRUE]

(***************************************************************************)
(* Dependencies                                                            *)
(***************************************************************************)
\* the keys that are fields of TomlInheritedDependency
InheritedDependencyFields ==
    {"workspace", "features", "default-features", "default_features",
     "optional", "public"}

\* the keys that are fields of TomlDetailedDependency
DetailedDependencyFields ==
    {"version", "registry", "registry-index", "path", "git", "branch", "tag",
     "rev", "features", "optional", "default-features", "default_features",
     "package", "public", "artifact", "lib", "target"}

\* the keys of t that are none of `fields`, with their nodes: what
\* #[serde(flatten)] _unused_keys collects
Flatten(t, fields) == [k \in (DOMAIN t) \ fields |-> t[k]]

\* derive(Deserialize) for TomlInheritedDependency: `workspace` is required,
\* the other fields are optional, every other key goes to _unused_keys
TomlInheritedDependency_deserialize(n) ==
    IF n.kind # "table" THEN Err(InvalidType)
    ELSE LET t == n.entries
             workspace == IF "workspace" \in DOMAIN t
                          THEN bool_deserialize(t["workspace"])
                          ELSE Err(MissingWorkspace)
             features == OptionField(t, "features", VecString_deserialize)
             default_features == OptionField(t, "default-features", bool_deserialize)
             default_features2 == OptionField(t, "default_features", bool_deserialize)
             optional == OptionField(t, "optional", bool_deserialize)
             public == OptionField(t, "public", bool_deserialize)
         IN AllOk(<<workspace, features, default_features, default_features2,
                    optional, public>>,
                  [workspace |-> workspace.v, features |-> features.v,
                   default_features |-> default_features.v,
                   default_features2 |-> default_features2.v,
                   optional |-> optional.v, public |-> public.v,
                   _unused_keys |-> Flatten(t, InheritedDependencyFields)])

\* TomlInheritedDependency::default_features
TomlInheritedDependency_default_features(w) ==
    OptionOr(w.default_features, w.default_features2)

\* TomlDetailedDependency::default()
DefaultDetailedDependency ==
    [version |-> None, registry |-> None, registry_index |-> None,
     path |-> None, git |-> None, branch |-> None, tag |-> None, rev |-> None,
     features |-> None, optional |-> None, default_features |-> None,
     default_features2 |-> None, package |-> None, public |-> None,
     artifact |-> None, lib |-> None, target |-> None,
     _unused_keys |-> EmptyMap]

\* derive(Deserialize) for TomlDetailedDependency: every field is optional,
\* every other key goes to _unused_keys
TomlDetailedDependency_deserialize(n) ==
    IF n.kind # "table" THEN Err(InvalidType)
    ELSE LET t == n.entries
             version == OptionField(t, "version", String_deserialize)
             registry == OptionField(t, "registry", String_deserialize)
             registry_index == OptionField(t, "registry-index", String_deserialize)
             path == OptionField(t, "path", String_deserialize)
             git == OptionField(t, "git", String_deserialize)
             branch == OptionField(t, "branch", String_deserialize)
             tagf == OptionField(t, "tag", String_deserialize)
             rev == OptionField(t, "rev", String_deserialize)
             features == OptionField(t, "features", VecString_deserialize)
             optional == OptionField(t, "optional", bool_deserialize)
             default_features == OptionField(t, "default-features", bool_deserialize)
             default_features2 == OptionField(t, "default_features", bool_deserialize)
             package == OptionField(t, "package", String_deserialize)
             public == OptionField(t, "public", bool_deserialize)
             artifact == OptionField(t, "artifact", StringOrVec_deserialize)
             lib == OptionField(t, "lib", bool_deserialize)
             target == OptionField(t, "target", String_deserialize)
         IN AllOk(<<version, registry, registry_index, path, git, branch, tagf,
                    rev, features, optional, default_features,
                    default_features2, package, public, artifact, lib, target>>,
                  [version |-> version.v, registry |-> registry.v,
                   registry_index |-> registry_index.v, path |-> path.v,
                   git |-> git.v, branch |-> branch.v, tag |-> tagf.v,
                   rev |-> rev.v, features |-> features.v,
                   optional |-> optional.v,
                   default_features |-> default_features.v,
                   default_features2 |-> default_features2.v,
                   package |-> package.v, public |-> public.v,
                   artifact |-> artifact.v, lib |-> lib.v, target |-> target.v,
                   _unused_keys |-> Flatten(t, DetailedDependencyFields)])

\* TomlDetailedDependency::default_features
TomlDetailedDependency_default_features(d) ==
    OptionOr(d.default_features, d.default_features2)

\* TomlDependency::Simple
Simple(s) == [variant |-> "Simple", version |-> s]

\* TomlDependency::Detailed
Detailed(d) == [variant |-> "Detailed", detail |-> d]

\* Spanned::<String>::deserialize: a string node with its span. It takes the
\* span from the deserializer: toml's gives one (spans is TRUE), while the
\* serde_value::ValueDeserializer of InheritableDependency::deserialize has
\* none to give (spans is FALSE) and the decoding is an Err
SpannedString_deserialize(n, spans) ==
    IF spans THEN String_deserialize(n) ELSE Err(InvalidType)

\* the message of the expect of TomlDependency::deserialize
ExpectMessage == "TODO: it's a toml map, toml dep detailed decode"

\* a faulty variant of TomlDependency::deserialize: the string is lost
TomlDependency_deserialize_blank(n, spans) ==
    LET value == SpannedString_deserialize(n, spans)
    IN IF value.tag = "Ok" THEN Ok(Simple("")) ELSE Panic(ExpectMessage)

\* TomlDependency::deserialize: the node is decoded as a string and the
\* result is unwrapped with expect, which panics when it is an Err
TomlDependency_deserialize(n, spans) ==
    LET value == SpannedString_deserialize(n, spans)
    IN IF value.tag = "Ok" THEN Ok(Simple(value.v)) ELSE Panic(ExpectMessage)

\* TomlDependency::is_version_specified
is_version_specified(d) ==
    IF d.variant = "Detailed" THEN d.detail.version.some ELSE TRUE

\* TomlDependency::is_optional
is_optional(d) ==
    IF d.variant = "Detailed"
    THEN IF d.detail.optional.some THEN d.detail.optional.v ELSE FALSE
    ELSE FALSE

\* TomlDependency::is_public
is_public(d) ==
    IF d.variant = "Detailed"
    THEN IF d.detail.public.some THEN d.detail.public.v ELSE FALSE
    ELSE FALSE

\* TomlDependency::unused_keys: the keys of the BTreeMap, each once (the
\* order of the Vec is the map's and is not modelled)
TomlDependency_unused_keys(d) ==
    IF d.variant = "Simple" THEN {} ELSE DOMAIN d.detail._unused_keys

\* InheritableDependency::deserialize: the inheriting record is tried first
\* and, when it does not decode, the node is decoded as a TomlDependency
InheritableDependency_deserialize(n) ==
    LET w == TomlInheritedDependency_deserialize(n)
    IN IF w.tag = "Ok"
       THEN IF w.v.workspace THEN Ok(Inherit(w.v))
            ELSE Err(WorkspaceCannotBeFalse)
       ELSE MapOk(TomlDependency_deserialize(n, FALSE), Value)

\* InheritableDependency::unused_keys
InheritableDependency_unused_keys(dep) ==
    IF dep.variant = "Value" THEN TomlDependency_unused_keys(dep.value)
    ELSE DOMAIN dep.inherit._unused_keys

(***************************************************************************)
(* The records with alias fields: TomlManifest, TomlPlatform, TomlTarget   *)
(* (only the alias fields and what their accessors read are modelled)      *)
(***************************************************************************)
\* the message of the error of InvalidCargoFeatures::deserialize (the key is
\* in backquotes in the code)
CargoFeaturesAtTop ==
    "the field cargo-features should be set at the top of Cargo.toml before any tables"

\* a faulty variant of InvalidCargoFeatures::deserialize: only a node of the
\* shape of the top-level cargo-features, an array, is an Err
InvalidCargoFeatures_deserialize_array(n) ==
    IF n.kind = "array" THEN Err(CargoFeaturesAtTop) ELSE Ok([unit |-> TRUE])

\* InvalidCargoFeatures::deserialize: an Err whatever the node
InvalidCargoFeatures_deserialize(n) == Err(CargoFeaturesAtTop)

\* derive(Deserialize) for TomlPackage, of which `name`, its one required
\* field, and `cargo-features` are modelled: the values of the keys are
\* decoded as the table is read, and a missing `name` is found at its end
TomlPackage_deserialize(n) ==
    IF n.kind # "table" THEN Err(InvalidType)
    ELSE LET t == n.entries
             name == IF "name" \in DOMAIN t THEN String_deserialize(t["name"])
                     ELSE Err(MissingName)
             _invalid_cargo_features ==
                 OptionField(t, "cargo-features", InvalidCargoFeatures_deserialize)
         IN AllOk(<<_invalid_cargo_features, name>>,
                  [name |-> name.v,
                   _invalid_cargo_features |-> _invalid_cargo_features.v])

\* derive(Serialize) for TomlPackage: the fields handed to the serializer, in
\* the order of the declaration; _invalid_cargo_features is skip_serializing
TomlPackage_serialize(p) == <<[key |-> "name", value |-> Some(p.name)]>>

\* BTreeMap<String, InheritableDependency>: every entry is decoded, and the
\* first that fails ends the decoding (the tables of KeyValues have one
\* entry, so which one is first does not matter)
Dependencies_deserialize(n) ==
    IF n.kind # "table" THEN Err(InvalidType)
    ELSE LET bad == {k \in Keys(n) :
                        InheritableDependency_deserialize(n.entries[k]).tag # "Ok"}
         IN IF bad = {}
            THEN Ok([k \in Keys(n) |-> InheritableDependency_deserialize(n.entries[k]).v])
            ELSE InheritableDependency_deserialize(n.entries[CHOOSE k \in bad : TRUE])

\* derive(Deserialize) for TomlManifest: both spellings are fields of their
\* own, keys that are no field are skipped
TomlManifest_deserialize(n) ==
    IF n.kind # "table" THEN Err(InvalidType)
    ELSE LET t == n.entries
             package == OptionField(t, "package", TomlPackage_deserialize)
             project == OptionField(t, "project", TomlPackage_deserialize)
             dev_dependencies == OptionField(t, "dev-dependencies", Dependencies_deserialize)
             dev_dependencies2 == OptionField(t, "dev_dependencies", Dependencies_deserialize)
             build_dependencies == OptionField(t, "build-dependencies", Dependencies_deserialize)
             build_dependencies2 == OptionField(t, "build_dependencies", Dependencies_deserialize)
         IN AllOk(<<package, project, dev_dependencies, dev_dependencies2,
                    build_dependencies, build_dependencies2>>,
                  [package |-> package.v, project |-> project.v,
                   dev_dependencies |-> dev_dependencies.v,
                   dev_dependencies2 |-> dev_dependencies2.v,
                   build_dependencies |-> build_dependencies.v,
                   build_dependencies2 |-> build_dependencies2.v])

\* a faulty variant of the accessor: the legacy `project` is preferred
TomlManifest_package_legacy(m) == OptionOr(m.project, m.package)

\* TomlManifest::package
TomlManifest_package(m) == OptionOr(m.package, m.project)

\* TomlManifest::dev_dependencies and TomlPlatform::dev_dependencies
dev_dependencies(m) == OptionOr(m.dev_dependencies, m.dev_dependencies2)

\* TomlManifest::build_dependencies and TomlPlatform::build_dependencies
build_dependencies(m) == OptionOr(m.build_dependencies, m.build_dependencies2)

\* derive(Deserialize) for TomlPlatform
TomlPlatform_deserialize(n) ==
    IF n.kind # "table" THEN Err(InvalidType)
    ELSE LET t == n.entries
             dependencies == OptionField(t, "dependencies", Dependencies_deserialize)
             build_deps == OptionField(t, "build-dependencies", Dependencies_deserialize)
             build_deps2 == OptionField(t, "build_dependencies", Dependencies_deserialize)
             dev_deps == OptionField(t, "dev-dependencies", Dependencies_deserialize)
             dev_deps2 == OptionField(t, "dev_dependencies", Dependencies_deserialize)
         IN AllOk(<<dependencies, build_deps, build_deps2, dev_deps, dev_deps2>>,
                  [dependencies |-> dependencies.v,
                   build_dependencies |-> build_deps.v,
                   build_dependencies2 |-> build_deps2.v,
                   dev_dependencies |-> dev_deps.v,
                   dev_dependencies2 |-> dev_deps2.v])

\* derive(Deserialize) for TomlTarget, of which the name and the alias
\* fields are modelled
TomlTarget_deserialize(n) ==
    IF n.kind # "table" THEN Err(InvalidType)
    ELSE LET t == n.entries
             name == OptionField(t, "name", String_deserialize)
             crate_type == OptionField(t, "crate-type", VecString_deserialize)
             crate_type2 == OptionField(t, "crate_type", VecString_deserialize)
             proc_macro == OptionField(t, "proc-macro", bool_deserialize)
             proc_macro2 == OptionField(t, "proc_macro", bool_deserialize)
         IN AllOk(<<name, crate_type, crate_type2, proc_macro, proc_macro2>>,
                  [name |-> name.v, crate_type |-> crate_type.v,
                   crate_type2 |-> crate_type2.v, proc_macro |-> proc_macro.v,
                   proc_macro2 |-> proc_macro2.v])

\* TomlTarget::crate_types
crate_types(t) == OptionOr(t.crate_type, t.crate_type2)

\* TomlTarget::proc_macro
proc_macro(t) ==
    LET types == crate_types(t)
    IN OptionOr(OptionOr(t.proc_macro, t.proc_macro2),
                IF types.some /\ \E i \in 1..Len(types.v) : types.v[i] = "proc-macro"
                THEN Some(TRUE) ELSE None)

(***************************************************************************)
(* The settings of a profile: TomlOptLevel                                 *)
(***************************************************************************)
\* how many items the arrays handed to the decoders of the settings have at most
MaxItems == 2

\* the strings the items of those arrays are taken from
TrimItems == {"macro", "object", "diagnostics", "all"}

\* the integers handed to the decoders of the settings
IntegerSamples == -1..4

\* the nodes handed to the decoders of the settings, besides BaseNodes
SettingNodes ==
    {TomlInteger(i) : i \in IntegerSamples}
    \cup {TomlString(x) : x \in {"s", "z", "0", "4", "fast", "none", "all", "macro",
                                 "object", "diagnostics", "limited", "full",
                                 "line-tables-only", "line-directives-only",
                                 "1.32+build"}}
    \cup {TomlArray([i \in 1..n |-> TomlString(f[i])]) :
             n \in 0..MaxItems, f \in [1..MaxItems -> TrimItems]}

\* struct TomlOptLevel(pub String)
TomlOptLevel(x) == [level |-> x]

\* the start of the message of the custom error of TomlOptLevel::deserialize
\* (the levels are in backquotes in the code)
OptLevelMustBe == "must be 0, 1, 2, 3, s or z, but found the string"

\* a faulty variant of TomlOptLevel::deserialize: every string is a level
TomlOptLevel_deserialize_any_string(n) ==
    CASE n.kind = "integer" -> Ok(TomlOptLevel(ToString(n.i)))
      [] n.kind = "string"  -> Ok(TomlOptLevel(n.s))
      [] OTHER              -> Err(InvalidType)

\* TomlOptLevel::deserialize: an integer is stored as its decimal text
\* (i64::to_string), of the strings only "s" and "z" are levels, and the
\* UntaggedEnumVisitor has no handler for any other shape
TomlOptLevel_deserialize(n) ==
    CASE n.kind = "integer" -> Ok(TomlOptLevel(ToString(n.i)))
      [] n.kind = "string"  -> IF n.s = "s" \/ n.s = "z"
                               THEN Ok(TomlOptLevel(n.s))
                               ELSE Err(OptLevelMustBe)
      [] OTHER              -> Err(InvalidType)

\* str::parse::<u32> on the texts of the model: the decimal text of an
\* integer that is not negative parses to it, any other text is an Err
parse_u32(x) ==
    LET ns == {n \in IntegerSamples : n >= 0 /\ ToString(n) = x}
    IN IF ns # {} THEN Ok(CHOOSE n \in ns : TRUE) ELSE Err("invalid digit found in string")

\* TomlOptLevel::serialize: a number when the text parses as a u32, the text
\* itself otherwise
TomlOptLevel_serialize(l) ==
    LET n == parse_u32(l.level)
    IN IF n.tag = "Ok" THEN TomlInteger(n.v) ELSE TomlString(l.level)

(***************************************************************************)
(* The settings of a profile: TomlDebugInfo                                *)
(***************************************************************************)
\* enum TomlDebugInfo
TomlDebugInfo == {"None", "LineDirectivesOnly", "LineTablesOnly", "Limited", "Full"}

\* serde's "invalid value: ..., expected ..."
InvalidValue == "invalid value"

\* TomlDebugInfo::deserialize: the bool, i64 and string handlers of its
\* UntaggedEnumVisitor
TomlDebugInfo_deserialize(n) ==
    CASE n.kind = "boolean" -> Ok(IF n.b THEN "Full" ELSE "None")
      [] n.kind = "integer" ->
            CASE n.i = 0 -> Ok("None")
              [] n.i = 1 -> Ok("Limited")
              [] n.i = 2 -> Ok("Full")
              [] OTHER   -> Err(InvalidValue)
      [] n.kind = "string" ->
            CASE n.s = "none"                 -> Ok("None")
              [] n.s = "limited"              -> Ok("Limited")
              [] n.s = "full"                 -> Ok("Full")
              [] n.s = "line-directives-only" -> Ok("LineDirectivesOnly")
              [] n.s = "line-tables-only"     -> Ok("LineTablesOnly")
              [] OTHER                        -> Err(InvalidValue)
      [] OTHER -> Err(InvalidType)

\* a faulty variant of TomlDebugInfo::serialize: Full and None are encoded
\* as the booleans they can be written as
TomlDebugInfo_serialize_bool(d) ==
    CASE d = "None"               -> TomlBoolean(FALSE)
      [] d = "LineDirectivesOnly" -> TomlString("line-directives-only")
      [] d = "LineTablesOnly"     -> TomlString("line-tables-only")
      [] d = "Limited"            -> TomlInteger(1)
      [] d = "Full"               -> TomlBoolean(TRUE)

\* TomlDebugInfo::serialize
TomlDebugInfo_serialize(d) ==
    CASE d = "None"               -> TomlInteger(0)
      [] d = "LineDirectivesOnly" -> TomlString("line-directives-only")
      [] d = "LineTablesOnly"     -> TomlString("line-tables-only")
      [] d = "Limited"            -> TomlInteger(1)
      [] d = "Full"               -> TomlInteger(2)

(***************************************************************************)
(* The settings of a profile: TomlTrimPaths                                *)
(***************************************************************************)
\* enum TomlTrimPathsValue
TomlTrimPathsValue == {"Diagnostics", "Macro", "Object"}

\* TomlTrimPathsValue::as_str
as_str(v) ==
    CASE v = "Diagnostics" -> "diagnostics"
      [] v = "Macro"       -> "macro"
      [] v = "Object"      -> "object"

\* derive(Deserialize) for TomlTrimPathsValue, kebab-case, from a string
TomlTrimPathsValue_deserialize(x) ==
    LET vs == {v \in TomlTrimPathsValue : as_str(v) = x}
    IN IF vs # {} THEN Ok(CHOOSE v \in vs : TRUE) ELSE Err("unknown variant")

\* TomlTrimPaths::none
none == TrimValues(<<>>)

\* TomlTrimPaths::is_none
is_none(t) == IF t.kind = "Values" THEN Len(t.values) = 0 ELSE FALSE

\* the message of the custom error of the string handler
ExpectedTrimPaths == "expected a boolean, none, diagnostics, macro, object, all, or an array with these options"

\* the seq handler of TomlTrimPaths::deserialize: the array is decoded as a
\* Vec<String>, then every string as a TomlTrimPathsValue, the first error
\* being returned
TomlTrimPaths_seq(n) ==
    LET strings == VecString_deserialize(n)
    IN IF strings.tag # "Ok" THEN strings
       ELSE LET rs == [i \in 1..Len(strings.v) |->
                          TomlTrimPathsValue_deserialize(strings.v[i])]
            IN AllOk(rs, TrimValues([i \in 1..Len(rs) |-> rs[i].v]))

\* a faulty variant of TomlTrimPaths::deserialize: false is not the empty
\* selection but its own value
TomlTrimPaths_deserialize_false(n) ==
    CASE n.kind = "boolean" -> Ok(IF n.b THEN TrimAll ELSE [kind |-> "Off"])
      [] n.kind = "string"  ->
            CASE n.s = "none" -> Ok(none)
              [] n.s = "all"  -> Ok(TrimAll)
              [] OTHER ->
                    LET v == TomlTrimPathsValue_deserialize(n.s)
                    IN IF v.tag = "Ok" THEN Ok(TrimValues(<<v.v>>))
                       ELSE Err(ExpectedTrimPaths)
      [] n.kind = "array"   -> TomlTrimPaths_seq(n)
      [] OTHER              -> Err(InvalidType)

\* TomlTrimPaths::deserialize: the bool, string and seq handlers of its
\* UntaggedEnumVisitor
TomlTrimPaths_deserialize(n) ==
    CASE n.kind = "boolean" -> Ok(IF n.b THEN TrimAll ELSE none)
      [] n.kind = "string"  ->
            CASE n.s = "none" -> Ok(none)
              [] n.s = "all"  -> Ok(TrimAll)
              [] OTHER ->
                    LET v == TomlTrimPathsValue_deserialize(n.s)
                    IN IF v.tag = "Ok" THEN Ok(TrimValues(<<v.v>>))
                       ELSE Err(ExpectedTrimPaths)
      [] n.kind = "array"   -> TomlTrimPaths_seq(n)
      [] OTHER              -> Err(InvalidType)

\* derive(PartialEq) for TomlTrimPaths: the same variant and, for Values,
\* Vec's equality, which is the same length and equal items index by index
TomlTrimPaths_eq(a, b) ==
    /\ a.kind = b.kind
    /\ a.kind = "Values" =>
          /\ Len(a.values) = Len(b.values)
          /\ \A i \in 1..Len(a.values) : a.values[i] = b.values[i]

\* the loop of Display::fmt for TomlTrimPaths: the values from index i on,
\* each after a comma
RECURSIVE fmt_rest(_, _)
fmt_rest(v, i) ==
    IF i > Len(v) THEN "" ELSE "," \o as_str(v[i]) \o fmt_rest(v, i + 1)

\* Display::fmt for TomlTrimPaths
TomlTrimPaths_fmt(t) ==
    CASE t.kind = "All" -> "all"
      [] t.kind = "Values" /\ Len(t.values) = 0 -> "none"
      [] OTHER -> as_str(t.values[1]) \o fmt_rest(t.values, 2)

(***************************************************************************)
(* Decoding a node, then reading the decoded value through its accessors   *)
(***************************************************************************)
\* the decoders of the inheritable fields
FieldDecoders ==
    {"InheritableString", "InheritableSemverVersion", "InheritableRustVersion",
     "InheritableVecString", "InheritableStringOrBool",
     "InheritableVecStringOrBool", "InheritableBtreeMap"}

\* the decoders of the types that have accessors
WithAccessors ==
    FieldDecoders \cup {"TomlDependency", "InheritableDependency",
                        "TomlDetailedDependency", "TomlManifest",
                        "TomlPlatform", "TomlTarget", "TomlTrimPaths"}

\* what the accessors of a value decoded by decoder `d` return
Accessors(d, x) ==
    CASE d \in FieldDecoders ->
            [tag |-> "Some", as_value |-> as_value(x)]
      [] d = "TomlDependency" ->
            [tag |-> "Some",
             is_version_specified |-> is_version_specified(x),
             is_optional |-> is_optional(x),
             is_public |-> is_public(x),
             unused_keys |-> TomlDependency_unused_keys(x)]
      [] d = "InheritableDependency" ->
            [tag |-> "Some",
             unused_keys |-> InheritableDependency_unused_keys(x),
             default_features |->
                 IF x.variant = "Inherit"
                 THEN TomlInheritedDependency_default_features(x.inherit)
                 ELSE None]
      [] d = "TomlDetailedDependency" ->
            [tag |-> "Some",
             default_features |-> TomlDetailedDependency_default_features(x)]
      [] d = "TomlManifest" ->
            [tag |-> "Some",
             package |-> TomlManifest_package(x),
             dev_dependencies |-> dev_dependencies(x),
             build_dependencies |-> build_dependencies(x)]
      [] d = "TomlPlatform" ->
            [tag |-> "Some",
             dev_dependencies |-> dev_dependencies(x),
             build_dependencies |-> build_dependencies(x)]
      [] d = "TomlTarget" ->
            [tag |-> "Some",
             crate_types |-> crate_types(x),
             proc_macro |-> proc_macro(x)]
      [] d = "TomlTrimPaths" ->
            [tag |-> "Some", is_none |-> is_none(x),
             to_string |-> TomlTrimPaths_fmt(x)]

\* a node of one of the shapes of TOML, nothing decoded, no profile merged
Init ==
    /\ node \in BaseNodes \cup SettingNodes
    /\ decoder = "none"
    /\ out = [tag |-> "None"]
    /\ got = [tag |-> "None"]
    /\ self = DefaultProfile
    /\ profile = DefaultProfile
    /\ merged = DefaultProfile
    /\ mpc = "build"
    /\ nset = 0
    /\ third = DefaultProfile
    /\ regrouped = DefaultProfile

\* the document gives the table under decode one more key
AddKey ==
    /\ decoder = "none"
    /\ node.kind = "table"
    /\ Cardinality(Keys(node)) < MaxKeys
    /\ \E family \in KeyFamilies : \E k \in family \ Keys(node) :
          /\ Keys(node) \subseteq family
          /\ \E n \in KeyValues(k) :
                node' = TomlTable([x \in Keys(node) \cup {k} |->
                                      IF x = k THEN n ELSE node.entries[x]])
    /\ UNCHANGED <<decoder, out, got, mergeVars>>

\* decoder `d` runs on the node and returns `result`
Decoded(d, result) ==
    /\ decoder = "none"
    /\ decoder' = d
    /\ out' = result
    /\ UNCHANGED <<node, got, mergeVars>>

DecodeInheritableString ==
    Decoded("InheritableString", InheritableString_deserialize(node))

DecodeInheritableSemverVersion ==
    Decoded("InheritableSemverVersion", InheritableSemverVersion_deserialize(node))

DecodeInheritableRustVersion ==
    Decoded("InheritableRustVersion", InheritableRustVersion_deserialize(node))

DecodeInheritableVecString ==
    Decoded("InheritableVecString", InheritableVecString_deserialize(node))

DecodeInheritableStringOrBool ==
    Decoded("InheritableStringOrBool", InheritableStringOrBool_deserialize(node))

DecodeInheritableVecStringOrBool ==
    Decoded("InheritableVecStringOrBool", InheritableVecStringOrBool_deserialize(node))

DecodeInheritableBtreeMap ==
    Decoded("InheritableBtreeMap", InheritableBtreeMap_deserialize(node))

DecodeInheritableDependency ==
    Decoded("InheritableDependency", InheritableDependency_deserialize(node))

DecodeTomlDependency ==
    Decoded("TomlDependency", TomlDependency_deserialize(node, TRUE))

DecodeTomlDetailedDependency ==
    Decoded("TomlDetailedDependency", TomlDetailedDependency_deserialize(node))

DecodeTomlManifest ==
    Decoded("TomlManifest", TomlManifest_deserialize(node))

DecodeTomlPlatform ==
    Decoded("TomlPlatform", TomlPlatform_deserialize(node))

DecodeTomlTarget ==
    Decoded("TomlTarget", TomlTarget_deserialize(node))

DecodeTomlOptLevel ==
    Decoded("TomlOptLevel", TomlOptLevel_deserialize(node))

DecodeTomlDebugInfo ==
    Decoded("TomlDebugInfo", TomlDebugInfo_deserialize(node))

DecodeTomlTrimPaths ==
    Decoded("TomlTrimPaths", TomlTrimPaths_deserialize(node))

DecodeRustVersion ==
    Decoded("RustVersion", RustVersion_deserialize(node))

DecodeTomlPackage ==
    Decoded("TomlPackage", TomlPackage_deserialize(node))

\* the types of the settings that are encoded again
Encodable == {"TomlOptLevel", "TomlDebugInfo"}

\* Serialize::serialize of a value decoded by decoder `d`
serialize(d, x) ==
    CASE d = "TomlOptLevel" -> TomlOptLevel_serialize(x)
      [] d = "TomlDebugInfo" -> TomlDebugInfo_serialize(x)

\* Deserialize::deserialize of the type decoder `d` decodes
deserialize(d, n) ==
    CASE d = "TomlOptLevel" -> TomlOptLevel_deserialize(n)
      [] d = "TomlDebugInfo" -> TomlDebugInfo_deserialize(n)

\* the decoded setting is encoded
Encode ==
    /\ decoder \in Encodable
    /\ out.tag = "Ok"
    /\ got.tag = "None"
    /\ got' = [tag |-> "Encoded", encoded |-> serialize(decoder, out.v)]
    /\ UNCHANGED <<node, decoder, out, mergeVars>>

\* what was encoded is decoded again
DecodeEncoded ==
    /\ got.tag = "Encoded"
    /\ got' = [tag |-> "Redecoded", encoded |-> got.encoded,
               redecoded |-> deserialize(decoder, got.encoded)]
    /\ UNCHANGED <<node, decoder, out, mergeVars>>

\* the caller decodes another array as a TomlTrimPaths and compares the two
\* values with ==
Compare ==
    /\ decoder = "TomlTrimPaths"
    /\ out.tag = "Ok"
    /\ got.tag = "None"
    /\ \E n \in SettingNodes :
          /\ n.kind = "array"
          /\ LET other == TomlTrimPaths_deserialize(n)
             IN /\ other.tag = "Ok"
                /\ got' = [tag |-> "Compared", node |-> n, other |-> other.v,
                           eq |-> TomlTrimPaths_eq(out.v, other.v)]
    /\ UNCHANGED <<node, decoder, out, mergeVars>>

\* the decoded package is encoded
SerializePackage ==
    /\ decoder = "TomlPackage"
    /\ out.tag = "Ok"
    /\ got.tag = "None"
    /\ got' = [tag |-> "Fields", fields |-> TomlPackage_serialize(out.v)]
    /\ UNCHANGED <<node, decoder, out, mergeVars>>

\* the decoded field is resolved against what the workspace has for it
Resolve ==
    /\ decoder \in FieldDecoders
    /\ out.tag = "Ok"
    /\ got.tag = "None"
    /\ \E workspace_defaults \in WorkspaceDefaults :
          got' = [tag |-> "Resolved", defaults |-> workspace_defaults,
                  resolved |-> resolve(out.v, workspace_defaults)]
    /\ UNCHANGED <<node, decoder, out, mergeVars>>

\* the caller reads the decoded value through its accessors
CallAccessors ==
    /\ decoder \in WithAccessors
    /\ out.tag = "Ok"
    /\ got.tag = "None"
    /\ got' = Accessors(decoder, out.v)
    /\ UNCHANGED <<node, decoder, out, mergeVars>>

Next ==
    \/ AddKey
    \/ DecodeInheritableString
    \/ DecodeInheritableSemverVersion
    \/ DecodeInheritableRustVersion
    \/ DecodeInheritableVecString
    \/ DecodeInheritableStringOrBool
    \/ DecodeInheritableVecStringOrBool
    \/ DecodeInheritableBtreeMap
    \/ DecodeInheritableDependency
    \/ DecodeTomlDependency
    \/ DecodeTomlDetailedDependency
    \/ DecodeTomlManifest
    \/ DecodeTomlPlatform
    \/ DecodeTomlTarget
    \/ DecodeTomlOptLevel
    \/ DecodeTomlDebugInfo
    \/ DecodeTomlTrimPaths
    \/ DecodeRustVersion
    \/ DecodeTomlPackage
    \/ SerializePackage
    \/ CallAccessors
    \/ Resolve
    \/ Compare
    \/ Encode
    \/ DecodeEncoded

Spec == Init /\ [][Next]_vars

(***************************************************************************)
(* Claims about TomlProfile::merge (specification SpecMerge)               *)
(***************************************************************************)
\* the keys of an Option<BTreeMap>: none when the map is None
PackageKeys(pkg) == IF pkg.some THEN DOMAIN pkg.v ELSE {}

\* C1: merge is right-biased per scalar field: after self.merge(profile)
\* every scalar field of self equals profile's when profile has it set, and
\* the old value of self's when profile has it absent.
C1_MergeRightBiased ==
    mpc = "merged" =>
        \A f \in ScalarFields :
            merged[f] = IF profile[f].some THEN profile[f] ELSE self[f]

\* C1 witness: both profiles set opt-level, differently, and profile's won
C1_Witness ==
    /\ mpc = "merged"
    /\ self.opt_level = Some("1")
    /\ profile.opt_level = Some("3")
    /\ merged.opt_level = Some("3")

\* C2: `package` overrides merge recursively: a spec in both maps holds the
\* recursive merge of the two overrides (a field set on either side is set in
\* the result), a spec only in profile's map holds profile's override, a spec
\* only in self's map is unchanged, and the keys are the union of both.
C2_PackageMergedRecursively ==
    mpc = "merged" =>
        /\ PackageKeys(merged.package) =
              PackageKeys(self.package) \cup PackageKeys(profile.package)
        /\ merged.package.some = (self.package.some \/ profile.package.some)
        /\ \A spec \in PackageKeys(profile.package) :
              IF spec \in PackageKeys(self.package)
              THEN /\ merged.package.v[spec] =
                         merge(self.package.v[spec], profile.package.v[spec])
                   /\ \A f \in ScalarFields :
                         /\ profile.package.v[spec][f].some =>
                               merged.package.v[spec][f] = profile.package.v[spec][f]
                         /\ ~profile.package.v[spec][f].some =>
                               merged.package.v[spec][f] = self.package.v[spec][f]
              ELSE merged.package.v[spec] = profile.package.v[spec]
        /\ \A spec \in PackageKeys(self.package) \ PackageKeys(profile.package) :
              merged.package.v[spec] = self.package.v[spec]

\* C2 witness: self overrides debug for "foo", profile overrides opt-level
\* for "foo", and the merged override for "foo" has both
C2_Witness ==
    /\ mpc = "merged"
    /\ self.package.some /\ profile.package.some
    /\ "foo" \in DOMAIN self.package.v /\ "foo" \in DOMAIN profile.package.v
    /\ self.package.v["foo"].debug = Some("Full")
    /\ ~self.package.v["foo"].opt_level.some
    /\ profile.package.v["foo"].opt_level = Some("3")
    /\ ~profile.package.v["foo"].debug.some
    /\ merged.package.v["foo"].debug = Some("Full")
    /\ merged.package.v["foo"].opt_level = Some("3")

\* C3: `build-override` is merged as a nested profile: with one on both sides
\* the result is the recursive merge (what self's had set and profile's has
\* not is kept), with one only in profile the result is profile's, with one
\* only in self it is unchanged.
C3_BuildOverrideMerged ==
    mpc = "merged" =>
        IF profile.build_override.some
        THEN IF self.build_override.some
             THEN /\ merged.build_override =
                        Some(merge(self.build_override.v, profile.build_override.v))
                  /\ \A f \in ScalarFields :
                        ~profile.build_override.v[f].some =>
                            merged.build_override.v[f] = self.build_override.v[f]
             ELSE merged.build_override = profile.build_override
        ELSE merged.build_override = self.build_override

\* C3 witness: both build-overrides set a different field, the merged one
\* has both
C3_Witness ==
    /\ mpc = "merged"
    /\ self.build_override.some /\ profile.build_override.some
    /\ self.build_override.v.debug = Some("Full")
    /\ profile.build_override.v.opt_level = Some("3")
    /\ merged.build_override.v.debug = Some("Full")
    /\ merged.build_override.v.opt_level = Some("3")

(***************************************************************************)
(* Claims about the decoders (specification Spec)                          *)
(***************************************************************************)
\* the inheritance marker tables { workspace = true } and { workspace = false }
MarkerTrue == TomlTable(One("workspace", TomlBoolean(TRUE)))

MarkerFalse == TomlTable(One("workspace", TomlBoolean(FALSE)))

\* the table n has key k with the boolean b
HasBool(n, k, b) == k \in Keys(n) /\ n.entries[k] = TomlBoolean(b)

\* the table n without its key k
Without(n, k) == TomlTable([x \in Keys(n) \ {k} |-> n.entries[x]])

\* every key of the table that is a field of TomlInheritedDependency has a
\* node of the shape the field accepts
InheritedWellTyped(n) ==
    \A k \in Keys(n) :
        /\ k \in {"workspace", "default-features", "default_features",
                  "optional", "public"} => n.entries[k].kind = "boolean"
        /\ k = "features" => VecString_deserialize(n.entries[k]).tag = "Ok"

\* every key of the table that is a field of TomlDetailedDependency has a
\* node of the shape the field accepts
DetailedWellTyped(n) ==
    \A k \in Keys(n) :
        /\ k \in {"version", "registry", "registry-index", "path", "git",
                  "branch", "tag", "rev", "package", "target"}
              => n.entries[k].kind = "string"
        /\ k \in {"optional", "default-features", "default_features", "public",
                  "lib"} => n.entries[k].kind = "boolean"
        /\ k = "features" => VecString_deserialize(n.entries[k]).tag = "Ok"
        /\ k = "artifact" => StringOrVec_deserialize(n.entries[k]).tag = "Ok"

\* C4: for every inheritable field type, { workspace = true } decodes to
\* Inherit and { workspace = false } fails with "`workspace` cannot be
\* false", and with no other error.
C4_MarkerDecodedForEveryType ==
    decoder \in FieldDecoders =>
        /\ node = MarkerTrue => out = Ok(Inherit([workspace |-> TRUE]))
        /\ node = MarkerFalse => out = Err(WorkspaceCannotBeFalse)

\* C5: a dependency given as a table with only { version = v } decodes to
\* Detailed with version Some(v) and every other field at its default, and
\* is_version_specified is true exactly when the table has a version key.
C5_TableDecodesToDetailed ==
    (decoder = "TomlDependency" /\ node.kind = "table" /\ DetailedWellTyped(node)) =>
        /\ Keys(node) = {"version"} =>
              out = Ok(Detailed([DefaultDetailedDependency EXCEPT
                                    !.version = Some(node.entries["version"].s)]))
        /\ got.tag = "Some" =>
              got.is_version_specified = ("version" \in Keys(node))

C7_UnusedKeysRetained ==
    (decoder \in {"TomlDependency", "InheritableDependency"} /\ node.kind = "table") =>
        IF decoder = "InheritableDependency" /\ "workspace" \in Keys(node)
        THEN (InheritedWellTyped(node) /\ HasBool(node, "workspace", TRUE)) =>
                /\ out.tag = "Ok"
                /\ out.v.variant = "Inherit"
                /\ DOMAIN out.v.inherit._unused_keys =
                      Keys(node) \ InheritedDependencyFields
                /\ got.tag = "Some" =>
                      got.unused_keys = Keys(node) \ InheritedDependencyFields
        ELSE DetailedWellTyped(node) =>
                /\ out.tag = "Ok"
                /\ LET d == IF decoder = "TomlDependency" THEN out.v ELSE out.v.value
                   IN /\ d.variant = "Detailed"
                      /\ DOMAIN d.detail._unused_keys =
                            Keys(node) \ DetailedDependencyFields
                /\ got.tag = "Some" =>
                      got.unused_keys = Keys(node) \ DetailedDependencyFields

\* C8 as stated: an inheritance marker table with a key beyond the allowed
\* ones (`workspace` for a plain field; `workspace`, `features`,
\* `default-features`, `optional`, `public` for a dependency) never decodes
\* to Inherit.
C8_ExtraKeysRejected ==
    /\ (/\ decoder \in FieldDecoders
        /\ node.kind = "table"
        /\ "workspace" \in Keys(node)
        /\ Keys(node) \ {"workspace"} # {})
          => out.tag = "Err"
    /\ (/\ decoder = "InheritableDependency"
        /\ node.kind = "table"
        /\ "workspace" \in Keys(node)
        /\ Keys(node) \ {"workspace", "features", "default-features",
                         "optional", "public"} # {})
          => out.tag = "Err"

\* C8, amended: keys beyond the allowed ones do not make an inheritance
\* marker a decode error. A plain inheritable field with workspace = true
\* decodes to Inherit whatever other keys its table has, and an inheriting
\* dependency with workspace = true and well-typed overrides decodes to
\* Inherit with every key that is not workspace, features, default-features,
\* default_features, optional or public kept in _unused_keys.
C8_ExtraKeysTolerated ==
    /\ (/\ decoder \in FieldDecoders
        /\ node.kind = "table"
        /\ HasBool(node, "workspace", TRUE))
          => out = Ok(Inherit([workspace |-> TRUE]))
    /\ (/\ decoder = "InheritableDependency"
        /\ node.kind = "table"
        /\ HasBool(node, "workspace", TRUE)
        /\ InheritedWellTyped(node))
          => /\ out.tag = "Ok"
             /\ out.v.variant = "Inherit"
             /\ DOMAIN out.v.inherit._unused_keys =
                   Keys(node) \ InheritedDependencyFields

\* C8 witness: a plain field's marker with the extra key `foo` decoded to Inherit
C8_Witness ==
    /\ decoder = "InheritableString"
    /\ node.kind = "table"
    /\ Keys(node) = {"workspace", "foo"}
    /\ out = Ok(Inherit([workspace |-> TRUE]))

\* C9: a dependency table with workspace = true and any of features,
\* default-features, optional, public decodes to Inherit carrying exactly
\* those values; the same table with workspace = false fails with
\* "`workspace` cannot be false"; a table with no `workspace` key decodes as
\* an ordinary dependency (Value), never as Inherit.
C9_InheritedDependencyOverrides ==
    (decoder = "InheritableDependency" /\ node.kind = "table") =>
        /\ (/\ "workspace" \in Keys(node)
            /\ Keys(node) \subseteq {"workspace", "features", "default-features",
                                     "optional", "public"}
            /\ InheritedWellTyped(node))
              => IF node.entries["workspace"].b
                 THEN out = Ok(Inherit(
                        [workspace |-> TRUE,
                         features |-> OptionField(node.entries, "features",
                                                  VecString_deserialize).v,
                         default_features |-> OptionField(node.entries, "default-features",
                                                          bool_deserialize).v,
                         default_features2 |-> None,
                         optional |-> OptionField(node.entries, "optional",
                                                  bool_deserialize).v,
                         public |-> OptionField(node.entries, "public",
                                                bool_deserialize).v,
                         _unused_keys |-> EmptyMap]))
                 ELSE out = Err(WorkspaceCannotBeFalse)
        /\ ("workspace" \notin Keys(node) /\ DetailedWellTyped(node))
              => out.tag = "Ok" /\ out.v.variant = "Value"
        /\ "workspace" \notin Keys(node)
              => ~(out.tag = "Ok" /\ out.v.variant = "Inherit")

\* the alias fields of the record decoder d decodes: the primary and the
\* legacy key, the fields they are decoded into, and the accessor
AliasPairs(d) ==
    LET dev == [primary |-> "dev-dependencies", legacy |-> "dev_dependencies",
                field |-> "dev_dependencies", field2 |-> "dev_dependencies2",
                accessor |-> "dev_dependencies"]
        build == [primary |-> "build-dependencies", legacy |-> "build_dependencies",
                  field |-> "build_dependencies", field2 |-> "build_dependencies2",
                  accessor |-> "build_dependencies"]
    IN CASE d = "TomlDetailedDependency" ->
                {[primary |-> "default-features", legacy |-> "default_features",
                  field |-> "default_features", field2 |-> "default_features2",
                  accessor |-> "default_features"]}
         [] d = "TomlManifest" ->
                {[primary |-> "package", legacy |-> "project",
                  field |-> "package", field2 |-> "project",
                  accessor |-> "package"], dev, build}
         [] d = "TomlPlatform" -> {dev, build}
         [] d = "TomlTarget" ->
                {[primary |-> "crate-type", legacy |-> "crate_type",
                  field |-> "crate_type", field2 |-> "crate_type2",
                  accessor |-> "crate_types"]}
         [] OTHER -> {}

\* what decoder d returns on node n, for the decoders of AliasPairs
DecodeWith(d, n) ==
    CASE d = "TomlDetailedDependency" -> TomlDetailedDependency_deserialize(n)
      [] d = "TomlManifest"           -> TomlManifest_deserialize(n)
      [] d = "TomlPlatform"           -> TomlPlatform_deserialize(n)
      [] d = "TomlTarget"             -> TomlTarget_deserialize(n)

\* C10: every alias accessor returns the primary spelling's value when the
\* primary key is present and the legacy spelling's only when it is absent,
\* and the presence of both spellings is no decode error: a table with both
\* fails to decode only if it also fails with one of the two taken out.
C10_AliasAccessors ==
    /\ \A a \in AliasPairs(decoder) :
          node.kind = "table" =>
             /\ (a.primary \in Keys(node) /\ a.legacy \in Keys(node) /\ out.tag # "Ok")
                   => \/ DecodeWith(decoder, Without(node, a.legacy)).tag # "Ok"
                      \/ DecodeWith(decoder, Without(node, a.primary)).tag # "Ok"
             /\ out.tag = "Ok" =>
                   /\ out.v[a.field].some = (a.primary \in Keys(node))
                   /\ out.v[a.field2].some = (a.legacy \in Keys(node))
             /\ got.tag = "Some" =>
                   got[a.accessor] = IF a.primary \in Keys(node)
                                     THEN out.v[a.field]
                                     ELSE out.v[a.field2]
    /\ (decoder = "InheritableDependency" /\ got.tag = "Some" /\ out.v.variant = "Inherit")
          => got.default_features = IF "default-features" \in Keys(node)
                                    THEN out.v.inherit.default_features
                                    ELSE out.v.inherit.default_features2

\* C10 witness: a manifest with both `package` and `project`, which differ,
\* decoded, and package() returned the one of `package`
C10_Witness ==
    /\ decoder = "TomlManifest"
    /\ node.kind = "table"
    /\ {"package", "project"} \subseteq Keys(node)
    /\ node.entries["package"] # node.entries["project"]
    /\ out.tag = "Ok"
    /\ got.tag = "Some"
    /\ got.package.some
    /\ got.package.v.name = node.entries["package"].entries["name"].s

\* C11: TomlOptLevel decode accepts the integers 0, 1, 2, 3 and the strings
\* "s" and "z", keeping the level as text, and rejects every other string,
\* every boolean, every array and every table.
C11_OptLevelDecode ==
    decoder = "TomlOptLevel" =>
        /\ (node.kind = "integer" /\ node.i \in 0..3)
              => out = Ok(TomlOptLevel(ToString(node.i)))
        /\ (node.kind = "string" /\ node.s \in {"s", "z"})
              => out = Ok(TomlOptLevel(node.s))
        /\ (node.kind = "string" /\ node.s \notin {"s", "z"}) => out.tag = "Err"
        /\ node.kind \in {"boolean", "array", "table"} => out.tag = "Err"

\* C11 witness: the string "4" was handed to TomlOptLevel and rejected
C11_Witness ==
    /\ decoder = "TomlOptLevel"
    /\ node = TomlString("4")
    /\ out.tag = "Err"

\* C12: TomlOptLevel encode is faithful to decode: a level decoded from an
\* integer is encoded as that integer, a level decoded from "s" or "z" as
\* that string, and what was encoded decodes to the level it was encoded from.
C12_OptLevelRoundTrip ==
    (decoder = "TomlOptLevel" /\ out.tag = "Ok") =>
        /\ got.tag \in {"Encoded", "Redecoded"} => got.encoded = node
        /\ got.tag = "Redecoded" => got.redecoded = out

\* C13: TomlDebugInfo decode maps true to Full, false to None, 0, 1, 2 to
\* None, Limited, Full and the two named strings to their levels, and rejects
\* every other integer; encode gives 0, 1, 2 for None, Limited, Full and the
\* name for the named levels, never a boolean, so that what was encoded
\* decodes to the level it was encoded from, and true is encoded as 2.
C13_DebugInfoCodec ==
    decoder = "TomlDebugInfo" =>
        /\ node.kind = "boolean" => out = Ok(IF node.b THEN "Full" ELSE "None")
        /\ node = TomlInteger(0) => out = Ok("None")
        /\ node = TomlInteger(1) => out = Ok("Limited")
        /\ node = TomlInteger(2) => out = Ok("Full")
        /\ (node.kind = "integer" /\ node.i \notin 0..2) => out.tag = "Err"
        /\ node = TomlString("line-tables-only") => out = Ok("LineTablesOnly")
        /\ node = TomlString("line-directives-only") => out = Ok("LineDirectivesOnly")
        /\ got.tag \in {"Encoded", "Redecoded"} =>
              /\ got.encoded.kind # "boolean"
              /\ out.v = "None" => got.encoded = TomlInteger(0)
              /\ out.v = "Limited" => got.encoded = TomlInteger(1)
              /\ out.v = "Full" => got.encoded = TomlInteger(2)
              /\ out.v = "LineTablesOnly" => got.encoded = TomlString("line-tables-only")
              /\ out.v = "LineDirectivesOnly" =>
                    got.encoded = TomlString("line-directives-only")
        /\ got.tag = "Redecoded" => got.redecoded = out

\* C13 witness: true was decoded to Full, encoded as 2 and decoded to Full again
C13_Witness ==
    /\ decoder = "TomlDebugInfo"
    /\ node = TomlBoolean(TRUE)
    /\ out = Ok("Full")
    /\ got.tag = "Redecoded"
    /\ got.encoded = TomlInteger(2)
    /\ got.redecoded = Ok("Full")

\* C14: TomlTrimPaths decode gives one value, the empty Values, for false,
\* "none" and the empty array, for which is_none() is true, and one value,
\* All, for true and "all", for which is_none() is false; "diagnostics",
\* "macro" and "object" decode to the Values of that one value, and any
\* other string is rejected.
C14_TrimPathsNormalized ==
    decoder = "TomlTrimPaths" =>
        /\ node \in {TomlBoolean(FALSE), TomlString("none"), TomlArray(<<>>)} =>
              /\ out = Ok(TrimValues(<<>>))
              /\ got.tag = "Some" => got.is_none
        /\ node \in {TomlBoolean(TRUE), TomlString("all")} =>
              /\ out = Ok(TrimAll)
              /\ got.tag = "Some" => ~got.is_none
        /\ node = TomlString("diagnostics") => out = Ok(TrimValues(<<"Diagnostics">>))
        /\ node = TomlString("macro") => out = Ok(TrimValues(<<"Macro">>))
        /\ node = TomlString("object") => out = Ok(TrimValues(<<"Object">>))
        /\ (/\ node.kind = "string"
            /\ node.s \notin {"none", "all", "diagnostics", "macro", "object"})
              => out.tag = "Err"

\* C14 witness: false was decoded to the empty Values and is_none() was true
C14_Witness ==
    /\ decoder = "TomlTrimPaths"
    /\ node = TomlBoolean(FALSE)
    /\ out = Ok(TrimValues(<<>>))
    /\ got.tag = "Some"
    /\ got.is_none

\* the sequences a and b hold the same items, possibly in another order
SameItems(a, b) ==
    /\ Len(a) = Len(b)
    /\ \E p \in Permutations(1..Len(a)) : \A i \in 1..Len(a) : a[i] = b[p[i]]

\* the strings of the array node n, each after the first following a comma
RECURSIVE CommaSeparated(_, _)
CommaSeparated(n, i) ==
    IF i > Len(n.items) THEN ""
    ELSE (IF i = 1 THEN "" ELSE ",") \o n.items[i].s \o CommaSeparated(n, i + 1)

\* C15: a decoded TomlTrimPaths Values is a set for equality and a sequence
\* for display: two arrays with the same values in another order decode to
\* values that are equal under ==, and Display prints the values separated
\* by commas in the order they were given.
C15_TrimPathsSetEquality ==
    (decoder = "TomlTrimPaths" /\ node.kind = "array" /\ out.tag = "Ok") =>
        /\ (got.tag = "Compared" /\ SameItems(node.items, got.node.items)) => got.eq
        /\ (got.tag = "Some" /\ Len(node.items) > 0)
              => got.to_string = CommaSeparated(node, 1)

\* C16: on encode a record writes all its fields that are no table before
\* any field that is a table; in a profile nothing but tables follows
\* `package` and `build-override`.
C16_ScalarsBeforeTables ==
    (mpc = "merged" /\ got.tag = "Encoded") =>
        \A i, j \in 1..Len(got.fields) :
            (i < j /\ got.fields[i].table) => got.fields[j].table

\* C17: a Rust version parses exactly when its string is a partial version
\* with neither a pre-release nor build metadata: "1.32" parses, "1.32-beta"
\* and "1.32+build" fail, and likewise through the inheritable field.
C17_RustVersionRestricted ==
    (decoder \in {"RustVersion", "InheritableRustVersion"} /\ node.kind = "string") =>
        LET partial == PartialVersion_parse(node.s)
            version == IF decoder = "RustVersion" THEN out.v ELSE out.v.value
        IN /\ out.tag = "Ok" <=>
                 (partial.tag = "Ok" /\ ~partial.v.pre.some /\ ~partial.v.build.some)
           /\ out.tag = "Ok" =>
                 /\ decoder = "InheritableRustVersion" => out.v.variant = "Value"
                 /\ version = partial.v
           /\ node.s = "1.32" =>
                 /\ out.tag = "Ok"
                 /\ version.major = 1 /\ version.minor = Some(32)
           /\ node.s \in {"1.32-beta", "1.32+build"} => out.tag = "Err"

\* C17 witness: "1.32+build" was handed to the inheritable field and rejected
C17_Witness ==
    /\ decoder = "InheritableRustVersion"
    /\ node = TomlString("1.32+build")
    /\ out.tag = "Err"

\* C18: resolving a field that holds a value returns that value whatever the
\* workspace has, without asking it; resolving an inheriting field fails
\* with the missing-workspace-value error when the workspace has nothing for
\* it; as_value returns the value of a Value and nothing for Inherit.
C18_ResolveInheritable ==
    (decoder \in FieldDecoders /\ out.tag = "Ok") =>
        /\ (got.tag = "Resolved" /\ out.v.variant = "Value") =>
              /\ got.resolved.result = Ok(out.v.value)
              /\ ~got.resolved.asked
        /\ (got.tag = "Resolved" /\ out.v.variant = "Inherit" /\ ~got.defaults.some) =>
              got.resolved.result = Err(MissingWorkspaceValue)
        /\ (got.tag = "Some" /\ out.v.variant = "Value") =>
              got.as_value = Some(out.v.value)
        /\ (got.tag = "Some" /\ out.v.variant = "Inherit") =>
              ~got.as_value.some

\* C18 witness: an inheriting field was resolved against a workspace with no
\* value for it, and the resolution failed
C18_Witness ==
    /\ decoder = "InheritableString"
    /\ node = MarkerTrue
    /\ out.tag = "Ok"
    /\ out.v.variant = "Inherit"
    /\ got.tag = "Resolved"
    /\ ~got.defaults.some
    /\ got.resolved.result = Err(MissingWorkspaceValue)

C20_MergeAssociative ==
    mpc = "merged" => merged = regrouped

\* C20 witness: the three profiles disagree on a field of the build-override,
\* a package override comes from one of them only, and both groupings were merged
C20_Witness ==
    /\ mpc = "merged"
    /\ self.build_override.some
    /\ profile.build_override.some
    /\ third.package.some
    /\ self.build_override.v.opt_level.some
    /\ profile.build_override.v.opt_level.some
    /\ self.build_override.v.opt_level # profile.build_override.v.opt_level
    /\ merged.build_override.v.opt_level = profile.build_override.v.opt_level
    /\ merged.package = third.package
    /\ merged = regrouped

\* C21: decoding a dependency entry never crashes: whatever the shape of
\* the node, TomlDependency decode returns a dependency or an error, and a
\* node that is neither a string nor a table is an error.
C21_DependencyDecodeTotal ==
    decoder = "TomlDependency" =>
        /\ out.tag \in {"Ok", "Err"}
        /\ node.kind \notin {"string", "table"} => out.tag = "Err"

\* C22: TomlOptLevel decode succeeds on nothing but the six values its error
\* message names, the integers 0, 1, 2, 3 and the strings "s" and "z"; an
\* integer below 0 or above 3 is an error.
C22_OptLevelRange ==
    decoder = "TomlOptLevel" =>
        /\ out.tag = "Ok" =>
              \/ node.kind = "integer" /\ node.i \in 0..3
              \/ node.kind = "string" /\ node.s \in {"s", "z"}
        /\ (node.kind = "integer" /\ node.i \notin 0..3) => out.tag = "Err"

RECURSIVE KeepsSet(_, _)

\* everything set in profile a is set in profile m: each scalar field, the
\* build-override and what it has set, and each `package` key with what its
\* override has set
KeepsSet(a, m) ==
    /\ \A f \in ScalarFields : a[f].some => m[f].some
    /\ a.build_override.some =>
          /\ m.build_override.some
          /\ KeepsSet(a.build_override.v, m.build_override.v)
    /\ a.package.some =>
          /\ m.package.some
          /\ \A spec \in DOMAIN a.package.v :
                /\ spec \in DOMAIN m.package.v
                /\ KeepsSet(a.package.v[spec], m.package.v[spec])

\* C23: merge is idempotent (a profile merged with itself is unchanged), has
\* the default profile as identity on both sides, and never unsets: what self
\* had set before self.merge(profile), nested fields and `package` keys
\* included, is still set afterwards.
C23_MergeLaws ==
    /\ mpc = "itself" => merged = self
    /\ mpc = "default" => (merged = self /\ regrouped = self)
    /\ mpc = "merged" => KeepsSet(self, merged)

\* C23 witness: a profile with a scalar field and a field in a package
\* override was merged with itself
C23_Witness ==
    /\ mpc = "itself"
    /\ self.opt_level.some
    /\ self.package.some
    /\ "foo" \in DOMAIN self.package.v
    /\ self.package.v["foo"].debug.some
    /\ merged = self

====
